---- MODULE Spec2Model ----
(***************************************************************************)
(* A model of the stateparser combinator library (parser.go).              *)
(*                                                                         *)
(* A Grammar is a closure over its construction arguments; it is modelled  *)
(* as a record naming the combinator and holding the captured arguments,   *)
(* and invoking it is the operator Apply, which runs the closure body of   *)
(* that combinator.  The cursor (StateReader) is a record holding the      *)
(* input, the read position and the log of the calls made on it.           *)
(*                                                                         *)
(* Strings are sequences of one-character strings.                         *)
(***************************************************************************)
EXTENDS Integers, Sequences, FiniteSets, TLC

\* ------------------------------------------------------------------ bounds
\* Longest input text a cursor is created over.
MaxLen == 3
\* Deepest nesting of combinators the construction actions build.
MaxDepth == 3

\* int(^uint(0) >> 1), the "no upper bound" sentinel of Mult, held as the
\* largest integer of the model checker (the code's is 2^63 - 1). No loop counts
\* that far, in the code or here: a repetition either fails within the input or
\* repeats an application that reads nothing and never returns.
MaxInt == 2147483647

Alphabet == {"a", "b"}

Min(x, y) == IF x <= y THEN x ELSE y

RECURSIVE Concat(_)
\* strings.Join(ss, "")
Concat(ss) == IF ss = <<>> THEN <<>> ELSE Head(ss) \o Concat(Tail(ss))

RECURSIVE StringsUpTo(_)
StringsUpTo(n) ==
    IF n = 0 THEN {<<>>}
    ELSE LET S == StringsUpTo(n - 1)
         IN S \cup {Append(s, c) : s \in {t \in S : Len(t) = n - 1}, c \in Alphabet}

\* ------------------------------------------------------------------ values
\* Match values (interface{}): nil, a string, a []interface{}, a TaggedMatch,
\* or a value produced by a Node transform.
Nil == [k |-> "nil"]
Str(s) == [k |-> "string", s |-> s]
Slice(ms) == [k |-> "slice", ms |-> ms]
TaggedMatch(m, tag) == [k |-> "TaggedMatch", Match |-> m, Tag |-> tag]
Obj(m) == [k |-> "obj", of |-> m]

\* error values
NoErr == [kind |-> "nil"]
EOF == [kind |-> "EOF"]
ExpectedErr(want, got) == [kind |-> "Expected", want |-> want, got |-> got]
OrErr(errs) == [kind |-> "Or", errs |-> errs]
NodeErr == [kind |-> "node"]
fatalError(err) == [kind |-> "fatalError", err |-> err]
\* a run-time panic (nil pointer dereference): the call returns nothing and the
\* goroutine unwinds
Panic == [kind |-> "panic"]
\* the call does not return: a loop of MaxInt passes, each appending to a slice
NoReturn == [kind |-> "noreturn"]
\* The call did not return to its caller (panic, endless loop): none of the
\* callers' statements after the call runs.
Aborts(err) == err.kind \in {"panic", "noreturn"}

IsErr(err) == err.kind # "nil"
\* m != nil
NotNil(m) == m.k # "nil"
\* _, isFE := err.(fatalError)
IsFE(err) == err.kind = "fatalError"

\* The (interface{}, error) pair a Grammar returns, with the cursor after the call.
Ret(m, err, sr) == [m |-> m, err |-> err, sr |-> sr]

\* ------------------------------------------------------------------ cursor
\* A StateReader over a text: position pos counts the characters read so far.
NewReader(input) == [input |-> input, pos |-> 0, log |-> <<>>]

\* sr.State(): the checkpoint is the position.
State(sr) == [state |-> sr.pos,
              sr |-> [sr EXCEPT !.log = Append(@, <<"State", sr.pos>>)]]

\* sr.RestoreState(state)
RestoreState(sr, state) ==
    [sr EXCEPT !.pos = state, !.log = Append(@, <<"RestoreState", state>>)]

\* sr.ReadRune(): the next character, or io.EOF at the end of the input.
ReadRune(sr) ==
    LET logged == [sr EXCEPT !.log = Append(@, <<"ReadRune", sr.pos>>)]
    IN IF sr.pos < Len(sr.input)
       THEN [r |-> sr.input[sr.pos + 1], err |-> NoErr,
             sr |-> [logged EXCEPT !.pos = sr.pos + 1]]
       ELSE [r |-> "", err |-> EOF, sr |-> logged]

\* ------------------------------------------------------------------ grammars
NoGrammar == [op |-> "nil"]

RECURSIVE Replace(_)
\* Escaper.Replace: newline and tab become the two-character escapes.
Replace(s) ==
    IF s = <<>> THEN <<>>
    ELSE LET c == Head(s)
         IN (IF c = "\n" THEN <<"\\", "n">>
             ELSE IF c = "\t" THEN <<"\\", "t">>
             ELSE <<c>>) \o Replace(Tail(s))

\* The code point of a character of the model's texts.
Code(c) ==
    CASE c = "\t" -> 9
      [] c = "\n" -> 10
      [] c = "-" -> 45
      [] c = "\\" -> 92
      [] c = "]" -> 93
      [] c = "^" -> 94
      [] c = "a" -> 97
      [] c = "b" -> 98
      [] c = "n" -> 110
      [] c = "t" -> 116

\* regexp/syntax reports an error: regexp.Compile returns a nil *Regexp
NoRegexp == [ok |-> FALSE]

\* parseClassChar: one character of a bracket expression, or the escape \n or
\* \t (the only escapes Escaper.Replace produces); no character left is the
\* error "missing closing ]".
ParseClassChar(t) ==
    IF t = <<>> THEN NoRegexp
    ELSE IF Head(t) = "\\"
    THEN IF Len(t) >= 2 /\ t[2] \in {"n", "t"}
         THEN [ok |-> TRUE, r |-> IF t[2] = "n" THEN 10 ELSE 9, rest |-> Tail(Tail(t))]
         ELSE NoRegexp
    ELSE [ok |-> TRUE, r |-> Code(Head(t)), rest |-> Tail(t)]

RECURSIVE ParseClass(_, _, _, _)
\* The loop of regexp/syntax parseClass (Perl flags: "-" is allowed anywhere)
\* over t, the text after "[" and "^": a "]" that comes first is a member, lo-hi
\* is a range and an error when hi < lo. The class ends at the first "]" that
\* is not a member (the last character, as the texts handed to Set hold none).
ParseClass(t, first, neg, class) ==
    IF t # <<>> /\ Head(t) = "]" /\ ~first
    THEN [ok |-> TRUE, neg |-> neg, class |-> class]
    ELSE LET lo == ParseClassChar(t)
         IN IF ~lo.ok THEN NoRegexp
            ELSE IF Len(lo.rest) >= 2 /\ lo.rest[1] = "-" /\ lo.rest[2] # "]"
            THEN LET hi == ParseClassChar(Tail(lo.rest))
                 IN IF ~hi.ok THEN NoRegexp
                    ELSE IF hi.r < lo.r THEN NoRegexp
                    ELSE ParseClass(hi.rest, FALSE, neg, class \cup (lo.r .. hi.r))
            ELSE ParseClass(lo.rest, FALSE, neg, class \cup {lo.r})

\* regexp.Compile(fmt.Sprintf("[%s]", set)): the compiled class, or NoRegexp
\* when the bracket expression does not parse.
Compile(set) ==
    IF set # <<>> /\ Head(set) = "^"
    THEN ParseClass(Append(Tail(set), "]"), TRUE, TRUE, {})
    ELSE ParseClass(Append(set, "]"), TRUE, FALSE, {})

\* regset.MatchString(s) for the one-character string s of a compiled class
MatchString(regset, c) ==
    IF regset.neg THEN Code(c) \notin regset.class ELSE Code(c) \in regset.class

Lit(text) == [op |-> "Lit", text |-> text]
Set(set) == [op |-> "Set", set |-> Replace(set), regset |-> Compile(Replace(set))]
And(gs) == [op |-> "And", gs |-> gs]
Or(gs) == [op |-> "Or", gs |-> gs]
Mult(n, m, g) == [op |-> "Mult", n |-> n, m |-> IF m = 0 THEN MaxInt ELSE m, g |-> g]
Optional(g) == Mult(0, 1, g)
Ignore(g) == [op |-> "Ignore", g |-> g]
Require(gs) == [op |-> "Require", g |-> And(gs)]
Tag(tag, g) == [op |-> "Tag", tag |-> tag, g |-> g]
Node(g, node) == [op |-> "Node", g |-> g, node |-> node]
\* Resolve(&cell): the grammar variable is dereferenced on every invocation.
Resolve == [op |-> "Resolve"]

\* The transforms handed to Node: one builds a value, one fails.
NodeFns == {"wrap", "fail"}
CallNode(node, m) ==
    IF node = "wrap" THEN [v |-> Obj(m), err |-> NoErr]
    ELSE [v |-> Nil, err |-> NodeErr]

\* ------------------------------------------------------------------ closures
RECURSIVE Apply(_, _, _)
RECURSIVE LitLoop(_, _, _, _, _)
RECURSIVE AndLoop(_, _, _, _, _, _)
RECURSIVE OrLoop(_, _, _, _, _, _)
RECURSIVE MultLoop(_, _, _, _, _, _, _, _)

\* Lit without the RestoreState of its read-failure branch
LitLoopKeeps(text, i, state, sr, cell) ==
    IF i > Len(text) THEN Ret(Str(text), NoErr, sr)
    ELSE LET rd == ReadRune(sr)
         IN IF IsErr(rd.err)
            THEN Ret(Nil, rd.err, rd.sr)
            ELSE IF rd.r # text[i]
            THEN Ret(Nil, ExpectedErr(<<text[i]>>, <<rd.r>>), RestoreState(rd.sr, state))
            ELSE LitLoop(text, i + 1, state, rd.sr, cell)

\* for _, r := range rs { ... } of Lit, from index i
LitLoop(text, i, state, sr, cell) ==
    IF i > Len(text) THEN Ret(Str(text), NoErr, sr)
    ELSE LET rd == ReadRune(sr)
         IN IF IsErr(rd.err)
            THEN Ret(Nil, rd.err, RestoreState(rd.sr, state))
            ELSE IF rd.r # text[i]
            THEN Ret(Nil, ExpectedErr(<<text[i]>>, <<rd.r>>), RestoreState(rd.sr, state))
            ELSE LitLoop(text, i + 1, state, rd.sr, cell)

LitRun(g, sr, cell) ==
    LET st == State(sr)
    IN LitLoop(g.text, 1, st.state, st.sr, cell)

SetRun(g, sr, cell) ==
    LET st == State(sr)
        rd == ReadRune(st.sr)
    IN IF IsErr(rd.err)
       THEN Ret(Nil, rd.err, RestoreState(rd.sr, st.state))
       ELSE IF ~g.regset.ok
       THEN \* regset is nil (Compile's error was dropped): MatchString panics
            Ret(Nil, Panic, rd.sr)
       ELSE IF MatchString(g.regset, rd.r)
       THEN Ret(Str(<<rd.r>>), NoErr, rd.sr)
       ELSE Ret(Nil, ExpectedErr(g.set, <<rd.r>>), RestoreState(rd.sr, st.state))

\* And without the RestoreState of its failure branch
AndLoopKeeps(gs, i, state, matches, sr, cell) ==
    IF i > Len(gs) THEN Ret(Slice(matches), NoErr, sr)
    ELSE LET r == Apply(gs[i], sr, cell)
         IN IF Aborts(r.err) THEN Ret(Nil, r.err, r.sr)
            ELSE IF IsErr(r.err)
            THEN Ret(Nil, r.err, r.sr)
            ELSE AndLoop(gs, i + 1, state,
                         IF NotNil(r.m) THEN Append(matches, r.m) ELSE matches,
                         r.sr, cell)

\* And without the m != nil test: every child match is appended
AndLoopAppendsAll(gs, i, state, matches, sr, cell) ==
    IF i > Len(gs) THEN Ret(Slice(matches), NoErr, sr)
    ELSE LET r == Apply(gs[i], sr, cell)
         IN IF Aborts(r.err) THEN Ret(Nil, r.err, r.sr)
            ELSE IF IsErr(r.err)
            THEN Ret(Nil, r.err, RestoreState(r.sr, state))
            ELSE AndLoop(gs, i + 1, state, Append(matches, r.m), r.sr, cell)

\* for _, g := range gs { ... } of And, from index i
AndLoop(gs, i, state, matches, sr, cell) ==
    IF i > Len(gs) THEN Ret(Slice(matches), NoErr, sr)
    ELSE LET r == Apply(gs[i], sr, cell)
         IN IF Aborts(r.err) THEN Ret(Nil, r.err, r.sr)
            ELSE IF IsErr(r.err)
            THEN Ret(Nil, r.err, RestoreState(r.sr, state))
            ELSE AndLoop(gs, i + 1, state,
                         IF NotNil(r.m) THEN Append(matches, r.m) ELSE matches,
                         r.sr, cell)

AndRun(g, sr, cell) ==
    LET st == State(sr)
    IN AndLoop(g.gs, 1, st.state, <<>>, st.sr, cell)

\* Or without the fatalError test: a fatal failure is collected like any other
OrLoopFallsThrough(gs, i, state, errs, sr, cell) ==
    IF i > Len(gs) THEN Ret(Nil, OrErr(errs), sr)
    ELSE LET r == Apply(gs[i], sr, cell)
         IN IF Aborts(r.err) THEN Ret(Nil, r.err, r.sr)
            ELSE IF ~IsErr(r.err) THEN Ret(r.m, NoErr, r.sr)
            ELSE OrLoop(gs, i + 1, state, Append(errs, r.err),
                        RestoreState(r.sr, state), cell)

\* Or that keeps the last success instead of returning at the first
OrLoopLast(gs, i, state, errs, sr, cell) ==
    IF i > Len(gs) THEN Ret(Nil, OrErr(errs), sr)
    ELSE LET r == Apply(gs[i], sr, cell)
             rest == OrLoop(gs, i + 1, state, errs, RestoreState(r.sr, state), cell)
         IN IF Aborts(r.err) THEN Ret(Nil, r.err, r.sr)
            ELSE IF ~IsErr(r.err)
            THEN (IF IsErr(rest.err) THEN Ret(r.m, NoErr, r.sr) ELSE rest)
            ELSE IF IsFE(r.err) THEN Ret(Nil, r.err, r.sr)
            ELSE OrLoop(gs, i + 1, state, Append(errs, r.err),
                        RestoreState(r.sr, state), cell)

\* Or without the RestoreState between alternatives
OrLoopNoRestore(gs, i, state, errs, sr, cell) ==
    IF i > Len(gs) THEN Ret(Nil, OrErr(errs), sr)
    ELSE LET r == Apply(gs[i], sr, cell)
         IN IF Aborts(r.err) THEN Ret(Nil, r.err, r.sr)
            ELSE IF ~IsErr(r.err) THEN Ret(r.m, NoErr, r.sr)
            ELSE IF IsFE(r.err) THEN Ret(Nil, r.err, r.sr)
            ELSE OrLoop(gs, i + 1, state, Append(errs, r.err), r.sr, cell)

\* for _, g := range gs { ... } of Or, from index i
OrLoop(gs, i, state, errs, sr, cell) ==
    IF i > Len(gs) THEN Ret(Nil, OrErr(errs), sr)
    ELSE LET r == Apply(gs[i], sr, cell)
         IN IF Aborts(r.err) THEN Ret(Nil, r.err, r.sr)
            ELSE IF ~IsErr(r.err) THEN Ret(r.m, NoErr, r.sr)
            ELSE IF IsFE(r.err) THEN Ret(Nil, r.err, r.sr)
            ELSE OrLoop(gs, i + 1, state, Append(errs, r.err),
                        RestoreState(r.sr, state), cell)

OrRun(g, sr, cell) ==
    LET st == State(sr)
    IN OrLoop(g.gs, 1, st.state, <<>>, st.sr, cell)

\* Mult with i <= n for i < n: the minimum is off by one
MultLoopOffByOne(n, m, g, i, state, ms, sr, cell) ==
    IF ~(i < m) THEN Ret(Slice(ms), NoErr, sr)
    ELSE LET r == Apply(g, sr, cell)
         IN IF Aborts(r.err) THEN Ret(Nil, r.err, r.sr)
            ELSE IF IsErr(r.err)
            THEN IF IsFE(r.err) THEN Ret(Nil, r.err, r.sr)
                 ELSE IF i <= n THEN Ret(Nil, r.err, RestoreState(r.sr, state))
                 ELSE Ret(Slice(ms), NoErr, r.sr)
            ELSE IF m = MaxInt /\ r.sr.pos = sr.pos
            THEN \* g read nothing and will not the next time: the loop goes on
                 Ret(Nil, NoReturn, r.sr)
            ELSE MultLoop(n, m, g, i + 1, state, Append(ms, r.m), r.sr, cell)

\* Mult without the fatalError test: a fatal failure ends the repetition like
\* a recoverable one
MultLoopFatalEnds(n, m, g, i, state, ms, sr, cell) ==
    IF ~(i < m) THEN Ret(Slice(ms), NoErr, sr)
    ELSE LET r == Apply(g, sr, cell)
         IN IF Aborts(r.err) THEN Ret(Nil, r.err, r.sr)
            ELSE IF IsErr(r.err)
            THEN IF i < n THEN Ret(Nil, r.err, RestoreState(r.sr, state))
                 ELSE Ret(Slice(ms), NoErr, r.sr)
            ELSE IF m = MaxInt /\ r.sr.pos = sr.pos
            THEN \* g read nothing and will not the next time: the loop goes on
                 Ret(Nil, NoReturn, r.sr)
            ELSE MultLoop(n, m, g, i + 1, state, Append(ms, r.m), r.sr, cell)

\* Mult with a progress test: an application that consumed nothing ends the loop
MultLoopStalls(n, m, g, i, state, ms, sr, cell) ==
    IF ~(i < m) THEN Ret(Slice(ms), NoErr, sr)
    ELSE LET r == Apply(g, sr, cell)
         IN IF Aborts(r.err) THEN Ret(Nil, r.err, r.sr)
            ELSE IF IsErr(r.err)
            THEN IF IsFE(r.err) THEN Ret(Nil, r.err, r.sr)
                 ELSE IF i < n THEN Ret(Nil, r.err, RestoreState(r.sr, state))
                 ELSE Ret(Slice(ms), NoErr, r.sr)
            ELSE IF r.sr.pos = sr.pos THEN Ret(Slice(Append(ms, r.m)), NoErr, r.sr)
            ELSE MultLoop(n, m, g, i + 1, state, Append(ms, r.m), r.sr, cell)

\* for i := 0; i < m; i++ { ... } of Mult
MultLoop(n, m, g, i, state, ms, sr, cell) ==
    IF ~(i < m) THEN Ret(Slice(ms), NoErr, sr)
    ELSE LET r == Apply(g, sr, cell)
         IN IF Aborts(r.err) THEN Ret(Nil, r.err, r.sr)
            ELSE IF IsErr(r.err)
            THEN IF IsFE(r.err) THEN Ret(Nil, r.err, r.sr)
                 ELSE IF i < n THEN Ret(Nil, r.err, RestoreState(r.sr, state))
                 ELSE Ret(Slice(ms), NoErr, r.sr)
            ELSE IF m = MaxInt /\ r.sr.pos = sr.pos
            THEN \* g read nothing and will not the next time: the loop goes on
                 Ret(Nil, NoReturn, r.sr)
            ELSE MultLoop(n, m, g, i + 1, state, Append(ms, r.m), r.sr, cell)

MultRun(g, sr, cell) ==
    LET st == State(sr)
    IN MultLoop(g.n, g.m, g.g, 0, st.state, <<>>, st.sr, cell)

IgnoreRun(g, sr, cell) ==
    LET r == Apply(g.g, sr, cell)
    IN IF IsErr(r.err) THEN Ret(Nil, r.err, r.sr)
       ELSE Ret(Nil, NoErr, r.sr)

\* Require that hands the error of And on as it is
RequireRunPlain(g, sr, cell) ==
    LET r == Apply(g.g, sr, cell)
    IN IF IsErr(r.err) THEN Ret(Nil, r.err, r.sr)
       ELSE Ret(r.m, NoErr, r.sr)

RequireRun(g, sr, cell) ==
    LET r == Apply(g.g, sr, cell)
    IN IF Aborts(r.err) THEN Ret(Nil, r.err, r.sr)
       ELSE IF IsErr(r.err) THEN Ret(Nil, fatalError(r.err), r.sr)
       ELSE Ret(r.m, NoErr, r.sr)

TagRun(g, sr, cell) ==
    LET r == Apply(g.g, sr, cell)
    IN IF IsErr(r.err) THEN Ret(Nil, r.err, r.sr)
       ELSE Ret(TaggedMatch(r.m, g.tag), NoErr, r.sr)

NodeRun(g, sr, cell) ==
    LET r == Apply(g.g, sr, cell)
    IN IF IsErr(r.err) THEN Ret(Nil, r.err, r.sr)
       ELSE LET c == CallNode(g.node, r.m)
            IN Ret(c.v, c.err, r.sr)

ResolveRun(g, sr, cell) == Apply(cell, sr, cell)

\* g(sr): the closure the combinator returned
Apply(g, sr, cell) ==
    CASE g.op = "Lit" -> LitRun(g, sr, cell)
      [] g.op = "Set" -> SetRun(g, sr, cell)
      [] g.op = "And" -> AndRun(g, sr, cell)
      [] g.op = "Or" -> OrRun(g, sr, cell)
      [] g.op = "Mult" -> MultRun(g, sr, cell)
      [] g.op = "Ignore" -> IgnoreRun(g, sr, cell)
      [] g.op = "Require" -> RequireRun(g, sr, cell)
      [] g.op = "Tag" -> TagRun(g, sr, cell)
      [] g.op = "Node" -> NodeRun(g, sr, cell)
      [] g.op = "Resolve" -> ResolveRun(g, sr, cell)

\* ------------------------------------------------------------------ queries
RECURSIVE GetTag(_, _)
RECURSIVE GetTagLoop(_, _, _)
\* for _, mi := range m { ... } of GetTag, from index i
GetTagLoop(ms, i, tag) ==
    IF i > Len(ms) THEN Nil
    ELSE LET tm == GetTag(ms[i], tag)
         IN IF NotNil(tm) THEN tm ELSE GetTagLoop(ms, i + 1, tag)

GetTag(m, tag) ==
    CASE m.k = "slice" -> GetTagLoop(m.ms, 1, tag)
      [] m.k = "TaggedMatch" ->
            IF tag = m.Tag THEN m.Match ELSE GetTag(m.Match, tag)
      [] OTHER -> Nil

TagMatch(tag, match) == TaggedMatch(match, tag)

RECURSIVE GetTags(_, _)
RECURSIVE GetTagsLoop(_, _, _, _)
\* for _, mi := range m { ... } of GetTags, from index i
GetTagsLoop(ms, i, tms, tag) ==
    IF i > Len(ms) THEN Slice(tms)
    ELSE LET tm == GetTags(ms[i], tag)
         IN GetTagsLoop(ms, i + 1, IF NotNil(tm) THEN tms \o tm.ms ELSE tms, tag)

\* GetTags returns a []interface{}: nil (Nil) or a slice
GetTags(m, tag) ==
    CASE m.k = "slice" -> GetTagsLoop(m.ms, 1, <<>>, tag)
      [] m.k = "TaggedMatch" ->
            IF tag = m.Tag
            THEN LET tm == GetTags(m.Match, tag)
                 IN Slice(Append(IF NotNil(tm) THEN tm.ms ELSE <<>>, m.Match))
            ELSE GetTags(m.Match, tag)
      [] OTHER -> Nil

RECURSIVE String(_)
String(m) ==
    CASE m.k = "slice" -> Concat([i \in 1..Len(m.ms) |-> String(m.ms[i])])
      [] m.k = "string" -> m.s
      [] OTHER -> <<>>

\* ------------------------------------------------------------------ closures, step by step
\* The same closures as a stack of activations, one move at a time.
\* An activation of the closure of grammar x: pc is where it stands, i, state
\* and ms (matches, or errs for Or) are its local variables, err is the error it
\* returns once the cursor is restored, at is where the cursor stood when it
\* last called a grammar.
NewFrame(x) ==
    [g |-> x, pc |-> "enter", i |-> 0, state |-> 0, ms |-> <<>>, err |-> NoErr,
     at |-> 0]

NoRet == [t |-> "none", m |-> Nil, err |-> NoErr]
\* return m, err
Returned(m, err) == [t |-> "ret", m |-> m, err |-> err]

\* The outcome of one move: the stack, the value being returned to its top,
\* the cursor, and whether a StateReader method was called.
Moved(stack, ret, sr, called) ==
    [stack |-> stack, ret |-> ret, sr |-> sr, called |-> called]

\* The closure starts: Lit, Set, And, Or and Mult take the checkpoint, the
\* others call the grammar they wrap (Resolve: the one the variable holds).
Enter(f, rest, sr, cell) ==
    IF f.g.op \in {"Lit", "Set", "And", "Or", "Mult"}
    THEN LET st == State(sr)
         IN Moved(Append(rest, [f EXCEPT !.pc = "loop", !.state = st.state,
                                         !.i = IF f.g.op = "Mult" THEN 0 ELSE 1]),
                  NoRet, st.sr, TRUE)
    ELSE Moved(Append(rest, [f EXCEPT !.pc = "wait"])
                 \o <<NewFrame(IF f.g.op = "Resolve" THEN cell ELSE f.g.g)>>,
               NoRet, sr, FALSE)

\* the activation calls grammar x and waits for its return
Calls(f, rest, x, sr) ==
    Moved(Append(rest, [f EXCEPT !.pc = "wait", !.at = sr.pos]) \o <<NewFrame(x)>>,
          NoRet, sr, FALSE)

\* the activation goes on to restore the cursor and return err
Failing(f, rest, err, sr, called) ==
    Moved(Append(rest, [f EXCEPT !.pc = "restore", !.err = err]), NoRet, sr, called)

\* The head of the loop of Lit, And, Or, Mult; Set's ReadRune and MatchString.
Loop(f, rest, sr) ==
    CASE f.g.op = "Lit" ->
            IF f.i > Len(f.g.text) THEN Moved(rest, Returned(Str(f.g.text), NoErr), sr, FALSE)
            ELSE LET rd == ReadRune(sr)
                 IN IF IsErr(rd.err) THEN Failing(f, rest, rd.err, rd.sr, TRUE)
                    ELSE IF rd.r # f.g.text[f.i]
                    THEN Failing(f, rest, ExpectedErr(<<f.g.text[f.i]>>, <<rd.r>>), rd.sr, TRUE)
                    ELSE Moved(Append(rest, [f EXCEPT !.i = f.i + 1]), NoRet, rd.sr, TRUE)
      [] f.g.op = "Set" ->
            LET rd == ReadRune(sr)
            IN IF IsErr(rd.err) THEN Failing(f, rest, rd.err, rd.sr, TRUE)
               ELSE IF ~f.g.regset.ok THEN Moved(<<>>, Returned(Nil, Panic), rd.sr, TRUE)
               ELSE IF MatchString(f.g.regset, rd.r)
               THEN Moved(rest, Returned(Str(<<rd.r>>), NoErr), rd.sr, TRUE)
               ELSE Failing(f, rest, ExpectedErr(f.g.set, <<rd.r>>), rd.sr, TRUE)
      [] f.g.op = "And" ->
            IF f.i > Len(f.g.gs) THEN Moved(rest, Returned(Slice(f.ms), NoErr), sr, FALSE)
            ELSE Calls(f, rest, f.g.gs[f.i], sr)
      [] f.g.op = "Or" ->
            IF f.i > Len(f.g.gs) THEN Moved(rest, Returned(Nil, OrErr(f.ms)), sr, FALSE)
            ELSE Calls(f, rest, f.g.gs[f.i], sr)
      [] f.g.op = "Mult" ->
            IF ~(f.i < f.g.m) THEN Moved(rest, Returned(Slice(f.ms), NoErr), sr, FALSE)
            ELSE Calls(f, rest, f.g.g, sr)

\* sr.RestoreState(state), after which Or tries its next alternative and the
\* others return the error
Restore(f, rest, sr) ==
    LET back == RestoreState(sr, f.state)
    IN IF f.g.op = "Or"
       THEN Moved(Append(rest, [f EXCEPT !.pc = "loop", !.i = f.i + 1]), NoRet, back, TRUE)
       ELSE Moved(rest, Returned(Nil, f.err), back, TRUE)

\* the grammar the activation called has returned r.m, r.err
Resume(f, rest, r, sr) ==
    CASE f.g.op = "And" ->
            IF IsErr(r.err) THEN Failing(f, rest, r.err, sr, FALSE)
            ELSE Moved(Append(rest, [f EXCEPT !.pc = "loop", !.i = f.i + 1,
                                     !.ms = IF NotNil(r.m) THEN Append(f.ms, r.m) ELSE f.ms]),
                       NoRet, sr, FALSE)
      [] f.g.op = "Or" ->
            IF ~IsErr(r.err) THEN Moved(rest, Returned(r.m, NoErr), sr, FALSE)
            ELSE IF IsFE(r.err) THEN Moved(rest, Returned(Nil, r.err), sr, FALSE)
            ELSE Moved(Append(rest, [f EXCEPT !.pc = "restore", !.ms = Append(f.ms, r.err)]),
                       NoRet, sr, FALSE)
      [] f.g.op = "Mult" ->
            IF IsErr(r.err)
            THEN IF IsFE(r.err) THEN Moved(rest, Returned(Nil, r.err), sr, FALSE)
                 ELSE IF f.i < f.g.n THEN Failing(f, rest, r.err, sr, FALSE)
                 ELSE Moved(rest, Returned(Slice(f.ms), NoErr), sr, FALSE)
            ELSE IF f.g.m = MaxInt /\ sr.pos = f.at
            THEN \* g read nothing and will not the next time: the loop goes on
                 Moved(<<>>, Returned(Nil, NoReturn), sr, FALSE)
            ELSE Moved(Append(rest, [f EXCEPT !.pc = "loop", !.i = f.i + 1,
                                     !.ms = Append(f.ms, r.m)]),
                       NoRet, sr, FALSE)
      [] f.g.op = "Ignore" -> Moved(rest, Returned(Nil, r.err), sr, FALSE)
      [] f.g.op = "Require" ->
            IF IsErr(r.err) THEN Moved(rest, Returned(Nil, fatalError(r.err)), sr, FALSE)
            ELSE Moved(rest, Returned(r.m, NoErr), sr, FALSE)
      [] f.g.op = "Tag" ->
            IF IsErr(r.err) THEN Moved(rest, Returned(Nil, r.err), sr, FALSE)
            ELSE Moved(rest, Returned(TaggedMatch(r.m, f.g.tag), NoErr), sr, FALSE)
      [] f.g.op = "Node" ->
            IF IsErr(r.err) THEN Moved(rest, Returned(Nil, r.err), sr, FALSE)
            ELSE LET c == CallNode(f.g.node, r.m)
                 IN Moved(rest, Returned(c.v, c.err), sr, FALSE)
      [] f.g.op = "Resolve" -> Moved(rest, Returned(r.m, r.err), sr, FALSE)

\* one move of the activation on top of the stack of pr
Move(pr, sr, cell) ==
    LET n == Len(pr.stack)
        f == pr.stack[n]
        rest == SubSeq(pr.stack, 1, n - 1)
    IN IF pr.ret.t = "ret" THEN Resume(f, rest, pr.ret, sr)
       ELSE CASE f.pc = "enter" -> Enter(f, rest, sr, cell)
              [] f.pc = "loop" -> Loop(f, rest, sr)
              [] f.pc = "restore" -> Restore(f, rest, sr)

RECURSIVE Advance(_, _, _)
\* The moves of pr up to and including its next StateReader call, or up to the
\* return of the invocation.
Advance(pr, sr, cell) ==
    LET t == Move(pr, sr, cell)
        next == [stack |-> t.stack, ret |-> t.ret]
    IN IF t.called \/ t.stack = <<>> THEN [pr |-> next, sr |-> t.sr]
       ELSE Advance(next, t.sr, cell)

\* ------------------------------------------------------------------ machine
VARIABLES
    g,      \* the grammar constructed so far (NoGrammar before the first call)
    cell,   \* the Grammar variable Resolve points to (NoGrammar while unassigned)
    sr,     \* the cursor the grammar is invoked on
    res,    \* what the invocation returned: [m, err]
    phase,  \* "build" while constructing, "done" once the grammar has returned,
            \* "panic" or "hung" when the invocation ended or goes on without a return
    match,  \* the match tree handed to GetTag, GetTags or String
    out,    \* what that call returned (NoQuery before it)
    procs,  \* concurrent invocations of g: each one's call stack and return value
    curs    \* the cursors handed to the concurrent invocations

vars == <<g, cell, sr, res, phase, match, out, procs, curs>>

NoQuery == [op |-> "none"]

Texts == {<<>>, <<"a">>, <<"a", "b">>}
Sets == {<<"^", "a", "\n">>}
Tags == {"x", "y"}
\* (n, m) pairs handed to Mult
Counts == {<<0, 0>>, <<2, 4>>, <<1, 2>>}
\* the grammars placed before and after the constructed one by And, Or and Require
AndSibs == {<<<<Lit(<<"a">>)>>, <<>>>>, <<<<>>, <<Lit(<<"a">>)>>>>,
            <<<<Lit(<<"a">>)>>, <<Lit(<<"a">>)>>>>}
OrSibs == {<<<<Lit(<<"a">>)>>, <<>>>>, <<<<>>, <<Lit(<<"b">>)>>>>}
RequireSibs == {<<<<>>, <<>>>>, <<<<Lit(<<"a">>)>>, <<>>>>}
Inputs == StringsUpTo(MaxLen)

Max(x, y) == IF x >= y THEN x ELSE y

RECURSIVE Depth(_)
RECURSIVE DepthAll(_)
DepthAll(gs) == IF gs = <<>> THEN 0 ELSE Max(Depth(Head(gs)), DepthAll(Tail(gs)))
\* the nesting depth of the combinator calls that built the grammar
Depth(x) ==
    CASE x.op \in {"Lit", "Set", "Resolve"} -> 1
      [] x.op \in {"And", "Or"} -> 1 + DepthAll(x.gs)
      [] x.op = "Require" -> 1 + DepthAll(x.g.gs)
      [] x.op = "nil" -> 0
      [] OTHER -> 1 + Depth(x.g)

RECURSIVE HasResolve(_)
RECURSIVE Guarded(_)
RECURSIVE GuardedSeq(_)
HasResolve(x) ==
    CASE x.op \in {"Lit", "Set", "nil"} -> FALSE
      [] x.op = "Resolve" -> TRUE
      [] x.op \in {"And", "Or"} -> \E i \in 1..Len(x.gs) : HasResolve(x.gs[i])
      [] OTHER -> HasResolve(x.g)

\* Every Resolve in the sequence gs is reached only after a component that reads
\* at least one character.
GuardedSeq(gs) ==
    IF gs = <<>> THEN TRUE
    ELSE LET h == Head(gs)
         IN \/ h.op = "Set"
            \/ h.op = "Lit" /\ h.text # <<>>
            \/ Guarded(h) /\ GuardedSeq(Tail(gs))

\* The recursion through the cell is not left recursion: invoking the grammar
\* reads input before it reaches a Resolve.
Guarded(x) ==
    CASE x.op \in {"Lit", "Set"} -> TRUE
      [] x.op = "Resolve" -> FALSE
      [] x.op = "And" -> GuardedSeq(x.gs)
      [] x.op = "Or" -> \A i \in 1..Len(x.gs) : Guarded(x.gs[i])
      [] OTHER -> Guarded(x.g)

Around(sibs) == sibs[1] \o <<g>> \o sibs[2]

Init ==
    /\ g = NoGrammar
    /\ cell = NoGrammar
    /\ sr = NewReader(<<>>)
    /\ res = [m |-> Nil, err |-> NoErr]
    /\ phase = "build"
    /\ match = Nil
    /\ out = NoQuery
    /\ procs = <<>>
    /\ curs = <<>>

\* the constructed grammar becomes x
Built(x) ==
    /\ phase = "build"
    /\ Depth(x) <= MaxDepth
    /\ g' = x
    /\ UNCHANGED <<cell, sr, res, phase, match, out, procs, curs>>

DoLit == \E text \in Texts : g = NoGrammar /\ Built(Lit(text))
DoSet == \E set \in Sets : g = NoGrammar /\ Built(Set(set))
DoResolve == g = NoGrammar /\ Built(Resolve)
DoAnd == \E sibs \in AndSibs : g # NoGrammar /\ Built(And(Around(sibs)))
DoOr ==
    \/ g = NoGrammar /\ Built(Or(<<>>))
    \/ \E sibs \in OrSibs : g # NoGrammar /\ Built(Or(Around(sibs)))
DoRequire == \E sibs \in RequireSibs : g # NoGrammar /\ Built(Require(Around(sibs)))
DoMult == \E c \in Counts : g # NoGrammar /\ Built(Mult(c[1], c[2], g))
DoOptional == g # NoGrammar /\ Built(Optional(g))
DoIgnore == g # NoGrammar /\ Built(Ignore(g))
DoTag == \E tag \in Tags : g # NoGrammar /\ Built(Tag(tag, g))
DoNode == \E node \in NodeFns : g # NoGrammar /\ Built(Node(g, node))

\* cell = g: the grammar variable a Resolve was given the address of is assigned.
Assign ==
    /\ phase = "build"
    /\ HasResolve(g)
    /\ Guarded(g)
    /\ cell = NoGrammar
    /\ cell' = g
    /\ UNCHANGED <<g, sr, res, phase, match, out, procs, curs>>

\* g(sr) on a fresh cursor over some input
Invoke ==
    \E input \in Inputs :
        /\ phase = "build"
        /\ g # NoGrammar
        /\ HasResolve(g) => cell # NoGrammar
        /\ LET r == Apply(g, NewReader(input), cell)
           IN /\ sr' = r.sr
              /\ res' = IF Aborts(r.err) THEN res ELSE [m |-> r.m, err |-> r.err]
              /\ phase' = IF r.err = Panic THEN "panic"
                          ELSE IF r.err = NoReturn THEN "hung"
                          ELSE "done"
        /\ UNCHANGED <<g, cell, match, out, procs, curs>>

Next ==
    \/ DoLit \/ DoSet \/ DoResolve \/ DoAnd \/ DoOr \/ DoRequire \/ DoMult
    \/ DoOptional \/ DoIgnore \/ DoTag \/ DoNode \/ Assign \/ Invoke

Spec == Init /\ [][Next]_vars

\* ------------------------------------------------------------------ arguments of Set and Mult
\* The length of the character class texts handed to Set.
ClassLen == 3

ClassChars == {"a", "b", "^", "-", "\n"}

RECURSIVE TextsOver(_, _)
\* the texts over chars of length at most n
TextsOver(chars, n) ==
    IF n = 0 THEN {<<>>}
    ELSE LET shorter == TextsOver(chars, n - 1)
         IN shorter \cup {Append(t, c) : t \in shorter, c \in chars}

\* Set(set) for any text, well-formed as a bracket expression or not
DoSetOf == \E set \in TextsOver(ClassChars, ClassLen) : g = NoGrammar /\ Built(Set(set))

\* Mult(n, m, Lit(text)) for any pair of integers, m < n and m < 0 included
DoMultOf ==
    \E n \in 0..3, m \in -1..3 :
        g # NoGrammar /\ g.op = "Lit" /\ Built(Mult(n, m, g))

NextArgs == DoLit \/ DoSetOf \/ DoMultOf \/ Invoke

SpecArgs == Init /\ [][NextArgs]_vars

\* ------------------------------------------------------------------ concurrent invocations
\* The invocations of one grammar that run at the same time, each on a cursor
\* of its own. An invocation is a stack of closure activations; one step of it
\* runs up to and including its next call of a StateReader method.
Procs == {1, 2}

\* The length of the inputs of the concurrent invocations.
ParLen == 2

\* every invocation is handed the same cursor
CursorShared(p) == 1

\* the cursor invocation p was handed
Cursor(p) == p

\* The grammars invoked concurrently: backtracking alternatives, a repetition
\* of a tagged class, a sequence that commits, a transformed option, and a
\* grammar that refers to itself through Resolve.
ParGrammars ==
    { Or(<<And(<<Lit(<<"a">>), Lit(<<"b">>)>>), Lit(<<"a">>)>>),
      Mult(1, 0, Tag("x", Set(<<"^", "a", "\n">>))),
      And(<<Ignore(Lit(<<"a">>)), Require(<<Lit(<<"b">>)>>)>>),
      Node(Optional(Lit(<<"a">>)), "wrap"),
      Or(<<And(<<Lit(<<"a">>), Resolve>>), Lit(<<"b">>)>>) }

InitPar ==
    /\ g \in ParGrammars
    /\ cell = IF HasResolve(g) THEN g ELSE NoGrammar
    /\ sr = NewReader(<<>>)
    /\ res = [m |-> Nil, err |-> NoErr]
    /\ phase = "par"
    /\ match = Nil
    /\ out = NoQuery
    /\ procs = [p \in Procs |-> [stack |-> <<NewFrame(g)>>, ret |-> NoRet]]
    /\ curs \in [Procs -> {NewReader(input) : input \in StringsUpTo(ParLen)}]

\* invocation p runs up to its next call of its cursor
Step(p) ==
    /\ phase = "par"
    /\ procs[p].stack # <<>>
    /\ LET a == Advance(procs[p], curs[Cursor(p)], cell)
       IN /\ procs' = [procs EXCEPT ![p] = a.pr]
          /\ curs' = [curs EXCEPT ![Cursor(p)] = a.sr]
    /\ UNCHANGED <<g, cell, sr, res, phase, match, out>>

NextPar == \E p \in Procs : Step(p)

SpecPar == InitPar /\ [][NextPar]_vars

\* ------------------------------------------------------------------ queries on match trees
\* The depth of the match trees handed to the query functions.
TreeDepth == 2

Leaves == {Nil, Str(<<"a">>)}

RECURSIVE Trees(_)
\* The match trees of depth at most d a grammar can return: nil (Ignore), a
\* string (Lit, Set), a TaggedMatch (Tag) and a []interface{} (And, Mult).
Trees(d) ==
    IF d = 0 THEN Leaves
    ELSE LET sub == Trees(d - 1)
         IN Leaves
            \cup {TaggedMatch(t, tag) : t \in sub, tag \in Tags}
            \cup {Slice(<<>>)}
            \cup {Slice(<<t>>) : t \in sub}
            \cup {Slice(<<t, u>>) : t \in sub, u \in sub}

InitTree ==
    /\ g = NoGrammar
    /\ cell = NoGrammar
    /\ sr = NewReader(<<>>)
    /\ res = [m |-> Nil, err |-> NoErr]
    /\ phase = "tree"
    /\ match \in Trees(TreeDepth)
    /\ out = NoQuery
    /\ procs = <<>>
    /\ curs = <<>>

\* a query function returned v
Queried(op, tag, v) ==
    /\ phase = "tree"
    /\ out' = [op |-> op, tag |-> tag, v |-> v]
    /\ phase' = "queried"
    /\ UNCHANGED <<g, cell, sr, res, match, procs, curs>>

CallGetTag == \E tag \in Tags : Queried("GetTag", tag, GetTag(match, tag))
CallGetTags == \E tag \in Tags : Queried("GetTags", tag, GetTags(match, tag))
CallString == Queried("String", "", String(match))

NextTree == CallGetTag \/ CallGetTags \/ CallString

SpecTree == InitTree /\ [][NextTree]_vars

\* ------------------------------------------------------------------ claims
Done == phase = "done"
Failed == Done /\ IsErr(res.err)
Recoverable == Failed /\ ~IsFE(res.err)
Fatal == Failed /\ IsFE(res.err)
Succeeded == Done /\ ~IsErr(res.err)

\* The invocation of x on a fresh cursor over the input of the run.
Run(x) == Apply(x, NewReader(sr.input), cell)
\* The invocation of x on the cursor of the run moved to position p.
RunAt(x, p) == Apply(x, [NewReader(sr.input) EXCEPT !.pos = p], cell)

\* C1: Checkpoint symmetry: whenever an invocation returns a recoverable
\* (non-fatal) error, the cursor is at the position it had before the call,
\* for every grammar built from the combinators, Node included.
CheckpointSymmetry == Recoverable => sr.pos = 0

RECURSIVE Through(_, _)
\* The cursor after the components gs[1..i] ran one after the other from the
\* start of the input.
Through(gs, i) ==
    IF i = 0 THEN NewReader(sr.input)
    ELSE Apply(gs[i], Through(gs, i - 1), cell).sr
\* What component i returns when run after its predecessors.
Part(gs, i) == Apply(gs[i], Through(gs, i - 1), cell)
\* Component i is the first that fails.
FailsAt(gs, i) ==
    /\ IsErr(Part(gs, i).err)
    /\ \A j \in 1..(i - 1) : ~IsErr(Part(gs, j).err)

\* C2: Sequence atomicity: when And(g1..gn) fails because gi fails, recoverably
\* or fatally, the cursor is back where it was before g1 ran, however much
\* g1..g(i-1) consumed, the error is the one gi returned and there is no match.
SequenceAtomicity ==
    (Done /\ g.op = "And") =>
        \A i \in 1..Len(g.gs) :
            FailsAt(g.gs, i) =>
                /\ res.err = Part(g.gs, i).err
                /\ res.m = Nil
                /\ sr.pos = 0

\* An And whose second or later component fails fatally after the earlier
\* ones consumed input.
SequenceAtomicityWitness ==
    /\ Done /\ g.op = "And"
    /\ \E i \in 2..Len(g.gs) :
          /\ FailsAt(g.gs, i)
          /\ IsFE(Part(g.gs, i).err)
          /\ Through(g.gs, i - 1).pos > 0

\* What alternative i returns when invoked at the entry position of Or.
Alt(gs, i) == Apply(gs[i], NewReader(sr.input), cell)
\* Alternatives 1..i-1 fail recoverably.
Reaches(gs, i) ==
    \A j \in 1..(i - 1) : IsErr(Alt(gs, j).err) /\ ~IsFE(Alt(gs, j).err)

RECURSIVE OrCalls(_, _)
\* The calls Or makes on the cursor when alternatives 1..i are invoked in turn,
\* each from the entry position, and nothing is invoked after alternative i.
OrCalls(gs, i) ==
    IF i = 0 THEN <<<<"State", 0>>>>
    ELSE OrCalls(gs, i - 1)
         \o (IF i > 1 THEN <<<<"RestoreState", 0>>>> ELSE <<>>)
         \o Alt(gs, i).sr.log

\* C3: Fatal short-circuit: when alternative gi of Or returns a fatal error, no
\* later alternative is invoked and Or returns that fatal error.
FatalShortCircuit ==
    (Done /\ g.op = "Or") =>
        \A i \in 1..Len(g.gs) :
            (Reaches(g.gs, i) /\ IsFE(Alt(g.gs, i).err)) =>
                /\ res.err = Alt(g.gs, i).err
                /\ IsFE(res.err)
                /\ sr.log = OrCalls(g.gs, i)

\* An Or whose alternative fails fatally while the next one would have matched.
FatalShortCircuitWitness ==
    /\ Done /\ g.op = "Or"
    /\ \E i \in 1..(Len(g.gs) - 1) :
          /\ Reaches(g.gs, i)
          /\ IsFE(Alt(g.gs, i).err)
          /\ ~IsErr(Alt(g.gs, i + 1).err)

\* C4: Alternation short-circuit: once alternative gi of Or succeeds, no later
\* alternative is invoked, and Or returns the match of gi unchanged with the
\* cursor where gi left it.
AlternationShortCircuit ==
    (Done /\ g.op = "Or") =>
        \A i \in 1..Len(g.gs) :
            (Reaches(g.gs, i) /\ ~IsErr(Alt(g.gs, i).err)) =>
                /\ ~IsErr(res.err)
                /\ res.m = Alt(g.gs, i).m
                /\ sr.pos = Alt(g.gs, i).sr.pos
                /\ sr.log = OrCalls(g.gs, i)

\* An Or whose first alternative succeeds after consuming input while the next
\* one would have matched too.
AlternationShortCircuitWitness ==
    /\ Done /\ g.op = "Or"
    /\ Len(g.gs) >= 2
    /\ ~IsErr(Alt(g.gs, 1).err)
    /\ sr.pos > 0
    /\ ~IsErr(Alt(g.gs, 2).err)

RECURSIVE After(_, _)
\* The cursor after j applications of x in a row from the start of the input.
After(x, j) ==
    IF j = 0 THEN NewReader(sr.input)
    ELSE Apply(x, After(x, j - 1), cell).sr
\* What application j of x returns.
Nth(x, j) == Apply(x, After(x, j - 1), cell)
\* The input admits exactly k applications of x in a row, and then x fails
\* recoverably.
Admits(x, k) ==
    /\ \A j \in 1..k : ~IsErr(Nth(x, j).err)
    /\ IsErr(Nth(x, k + 1).err)
    /\ ~IsFE(Nth(x, k + 1).err)

\* C5: Repetition boundaries: for Mult(n, m, g) with 0 <= n <= m (m = 0 held
\* as the MaxInt sentinel) on an input admitting exactly k applications of g
\* followed by a recoverable failure: if k >= n the call succeeds with the
\* first min(k, m) matches in application order; if k < n it fails recoverably
\* with the cursor back at its entry position.
RepetitionBoundaries ==
    (Done /\ g.op = "Mult" /\ 0 <= g.n /\ g.n <= g.m) =>
        \A k \in 0..Len(sr.input) :
            Admits(g.g, k) =>
                IF k >= g.n
                THEN /\ ~IsErr(res.err)
                     /\ res.m = Slice([j \in 1..Min(k, g.m) |-> Nth(g.g, j).m])
                ELSE /\ IsErr(res.err) /\ ~IsFE(res.err)
                     /\ res.m = Nil
                     /\ sr.pos = 0

\* Mult(2, 4, g) over an input admitting exactly 3 applications returned 3 matches.
RepetitionBoundariesWitness ==
    /\ Done /\ g.op = "Mult" /\ g.n = 2 /\ g.m = 4
    /\ Admits(g.g, 3)
    /\ ~IsErr(res.err)
    /\ Len(res.m.ms) = 3
    /\ sr.pos > 0

\* C7: Ignore drops the value but consumes input: when And(g1..gn) succeeds its
\* result is the sequence of exactly the non-nil child matches in grammar order,
\* and the cursor is past the input consumed by every gi, the ignored included.
IgnoreDropsValue ==
    (Done /\ g.op = "And" /\ \A i \in 1..Len(g.gs) : ~IsErr(Part(g.gs, i).err)) =>
        /\ ~IsErr(res.err)
        /\ res.m = Slice(SelectSeq([i \in 1..Len(g.gs) |-> Part(g.gs, i).m], NotNil))
        /\ sr.pos = Through(g.gs, Len(g.gs)).pos

\* And(Lit, Ignore(h), Lit) matched: two elements, and the cursor is past the
\* text h consumed as well.
IgnoreDropsValueWitness ==
    /\ Done /\ g.op = "And" /\ ~IsErr(res.err)
    /\ Len(g.gs) = 3
    /\ g.gs[2].op = "Ignore"
    /\ Through(g.gs, 2).pos > Through(g.gs, 1).pos
    /\ Len(res.m.ms) = 2
    /\ sr.pos = 3

\* The next Len(text) characters of the input from position p are text.
Prefixed(text, p) ==
    /\ p + Len(text) <= Len(sr.input)
    /\ SubSeq(sr.input, p + 1, p + Len(text)) = text

\* C8: Literal exactness: Lit(text) succeeds iff the next len(text) characters
\* of the input equal text; on success it has consumed exactly len(text)
\* characters and returns the scalar text; on any mismatch or read failure the
\* cursor is back at its entry position.
LiteralExactness ==
    (Done /\ g.op = "Lit") =>
        /\ IF Prefixed(g.text, 0)
           THEN ~IsErr(res.err) /\ sr.pos = Len(g.text) /\ res.m = Str(g.text)
           ELSE IsErr(res.err) /\ ~IsFE(res.err) /\ sr.pos = 0
        /\ \A p \in 0..Len(sr.input) :
              LET r == RunAt(g, p)
              IN IF Prefixed(g.text, p)
                 THEN /\ ~IsErr(r.err)
                      /\ r.sr.pos = p + Len(g.text)
                      /\ r.m = Str(g.text)
                 ELSE /\ IsErr(r.err) /\ ~IsFE(r.err)
                      /\ r.m = Nil
                      /\ r.sr.pos = p

\* A two-character literal met the end of the input after its first character.
LiteralExactnessWitness ==
    /\ Done /\ g.op = "Lit" /\ Len(g.text) = 2
    /\ sr.input = <<g.text[1]>>
    /\ res.err = EOF
    /\ sr.pos = 0

\* C10: Require commits: Require(g1..gn) succeeds exactly when And(g1..gn)
\* succeeds, with the same match and cursor position; whenever And(g1..gn)
\* fails, recoverably or fatally, Require returns a fatal error and the cursor
\* is at the entry position.
RequireCommits ==
    (Done /\ g.op = "Require") =>
        LET a == Run(And(g.g.gs))
        IN IF ~IsErr(a.err)
           THEN /\ ~IsErr(res.err)
                /\ res.m = a.m
                /\ sr.pos = a.sr.pos
           ELSE /\ IsFE(res.err)
                /\ res.m = Nil
                /\ sr.pos = 0

\* A Require whose And failed recoverably after its first component consumed input.
RequireCommitsWitness ==
    /\ Done /\ g.op = "Require"
    /\ Len(g.g.gs) = 2
    /\ FailsAt(g.g.gs, 2)
    /\ ~IsFE(Part(g.g.gs, 2).err)
    /\ Through(g.g.gs, 1).pos > 0
    /\ IsFE(res.err)

RECURSIVE Plain(_)
\* x is built from Lit, Set, And, Or, Mult, Optional, Ignore, Require and Tag only.
Plain(x) ==
    CASE x.op \in {"Lit", "Set"} -> TRUE
      [] x.op \in {"Node", "Resolve", "nil"} -> FALSE
      [] x.op \in {"And", "Or"} -> \A i \in 1..Len(x.gs) : Plain(x.gs[i])
      [] OTHER -> Plain(x.g)

RECURSIVE Kept(_, _)
RECURSIVE KeptSeq(_, _, _)
RECURSIVE KeptAlt(_, _, _)
RECURSIVE KeptRep(_, _, _)
\* The text the components gs[i..] consumed, in order, each run where its
\* predecessor left the cursor s.
KeptSeq(gs, i, s) ==
    IF i > Len(gs) THEN <<>>
    ELSE Kept(gs[i], s) \o KeptSeq(gs, i + 1, Apply(gs[i], s, cell).sr)
\* The text the first matching alternative among gs[i..] consumed from s.
KeptAlt(gs, i, s) ==
    IF i > Len(gs) THEN <<>>
    ELSE IF ~IsErr(Apply(gs[i], s, cell).err) THEN Kept(gs[i], s)
    ELSE KeptAlt(gs, i + 1, s)
\* The text applications i+1.. of the body of the repetition x consumed from s.
KeptRep(x, i, s) ==
    IF ~(i < x.m) \/ IsErr(Apply(x.g, s, cell).err) THEN <<>>
    ELSE Kept(x.g, s) \o KeptRep(x, i + 1, Apply(x.g, s, cell).sr)
\* The text a successful invocation of the plain grammar x on the cursor s
\* consumed, without the text consumed by the components wrapped in Ignore.
Kept(x, s) ==
    CASE x.op \in {"Lit", "Set"} ->
            SubSeq(s.input, s.pos + 1, Apply(x, s, cell).sr.pos)
      [] x.op = "Ignore" -> <<>>
      [] x.op = "And" -> KeptSeq(x.gs, 1, s)
      [] x.op = "Or" -> KeptAlt(x.gs, 1, s)
      [] x.op = "Mult" -> KeptRep(x, 0, s)
      [] OTHER -> Kept(x.g, s)

\* C6: Flatten round-trip: for every grammar built from Lit, Set, And, Or,
\* Mult, Optional, Ignore, Require and Tag that succeeds with match m, String(m)
\* is the text the call consumed, minus the text consumed by the components
\* wrapped in Ignore; also when part of the match is a TaggedMatch.
FlattenRoundTrip ==
    (Done /\ Plain(g) /\ ~IsErr(res.err)) =>
        String(res.m) = Kept(g, NewReader(sr.input))

\* The label of Tags that is not tag.
OtherTag(tag) == CHOOSE o \in Tags : o # tag

\* The places a tagged result t is embedded in: alone, inside sequences, inside
\* a TaggedMatch carrying another label, and as the first of two matches
\* carrying its label.
Embeddings(t, tag) ==
    << t,
       Slice(<<t>>),
       Slice(<<Str(<<"a">>), t>>),
       TagMatch(OtherTag(tag), t),
       TagMatch(OtherTag(tag), Slice(<<t>>)),
       Slice(<<t, TagMatch(tag, Str(<<"b">>))>>),
       Slice(<<TagMatch(OtherTag(tag), t), TagMatch(tag, Str(<<"b">>))>>) >>

\* C9: Tag round-trip: when g succeeds with match m, GetTag of the result of
\* Tag(x, g) with label x is m, and it is still m, the first match, when the
\* tagged result is embedded inside sequences or inside TaggedMatch values
\* carrying other labels.
TagRoundTrip ==
    (Done /\ g.op = "Tag" /\ ~IsErr(res.err)) =>
        \A i \in DOMAIN Embeddings(res.m, g.tag) :
            GetTag(Embeddings(res.m, g.tag)[i], g.tag) = Run(g.g).m

\* C13: when Mult(n, m, g) ends because attempt number i >= n of g failed
\* recoverably, it succeeds with the cursor at the position reached after the
\* last successful application of g (the entry position if there was none),
\* for any g, Node(h, transform) with a failing transform included, and for
\* Optional(g).
RepetitionEndsAtLastSuccess ==
    (Done /\ g.op = "Mult") =>
        \A k \in 0..Len(sr.input) :
            (Admits(g.g, k) /\ k >= g.n /\ k < g.m) =>
                /\ ~IsErr(res.err)
                /\ sr.pos = After(g.g, k).pos

RECURSIVE NoNilChild(_)
\* No []interface{} in the match tree m holds a nil element.
NoNilChild(m) ==
    CASE m.k = "slice" ->
            \A i \in 1..Len(m.ms) : NotNil(m.ms[i]) /\ NoNilChild(m.ms[i])
      [] m.k = "TaggedMatch" -> NoNilChild(m.Match)
      [] m.k = "obj" -> NoNilChild(m.of)
      [] OTHER -> TRUE

\* C14: no sequence match holds a nil child: in every match tree a successful
\* grammar returns, each element of every sequence is a non-nil match, for
\* Mult(n, m, Ignore(g)) too.
NoNilInSequences == (Done /\ ~IsErr(res.err)) => NoNilChild(res.m)

RECURSIVE FirstFailure(_, _, _)
\* The applications of x in a row from cursor c, k of them done: how many
\* succeed before the first failure, and what the failing application returns
\* (none fails when more succeed than the input has characters).
FirstFailure(x, c, k) ==
    LET r == Apply(x, c, cell)
    IN IF IsErr(r.err) \/ k > Len(c.input) THEN [k |-> k, r |-> r]
       ELSE FirstFailure(x, r.sr, k + 1)

\* C15: a fatal error of any application of g inside Mult(n, m, g), also one
\* numbered above n and also under Optional, is returned at once: g is invoked
\* no further, the error is that fatal error and no match is returned.
FatalEndsRepetition ==
    (Done /\ g.op = "Mult") =>
        LET f == FirstFailure(g.g, NewReader(sr.input), 0)
        IN (f.k < g.m /\ IsFE(f.r.err)) =>
               /\ res.err = f.r.err
               /\ res.m = Nil
               /\ sr.log = <<<<"State", 0>>>> \o f.r.sr.log

\* A repetition that had its minimum and at least one match when an application
\* failed fatally.
FatalEndsRepetitionWitness ==
    /\ Done /\ g.op = "Mult"
    /\ LET f == FirstFailure(g.g, NewReader(sr.input), 0)
       IN f.k >= 1 /\ f.k >= g.n /\ f.k < g.m /\ IsFE(f.r.err)
    /\ IsFE(res.err)

\* C16: Or invokes its alternatives in index order, each from the entry
\* position whatever the failed one before it left behind; when all n fail
\* recoverably Or fails recoverably with the n collected errors and the cursor
\* at the entry position; with no alternative it fails without reading.
OrderedChoice ==
    (Done /\ g.op = "Or" /\ Reaches(g.gs, Len(g.gs) + 1)) =>
        /\ res.err = OrErr([i \in 1..Len(g.gs) |-> Alt(g.gs, i).err])
        /\ ~IsFE(res.err)
        /\ res.m = Nil
        /\ sr.pos = 0
        /\ sr.log = OrCalls(g.gs, Len(g.gs))
                    \o (IF Len(g.gs) > 0 THEN <<<<"RestoreState", 0>>>> ELSE <<>>)

\* Both alternatives of an Or failed recoverably, the first one leaving the
\* cursor past the entry position.
OrderedChoiceWitness ==
    /\ Done /\ g.op = "Or" /\ Len(g.gs) = 2
    /\ Reaches(g.gs, 3)
    /\ Alt(g.gs, 1).sr.pos > 0
    /\ Len(res.err.errs) = 2

\* the invocation was made: it returned, or it goes on for ever
Invoked == phase \in {"done", "hung"}

RECURSIVE Consuming(_)
\* No body of a Mult inside x succeeds anywhere in the input without reading a
\* character.
Consuming(x) ==
    CASE x.op \in {"Lit", "Set", "Resolve", "nil"} -> TRUE
      [] x.op \in {"And", "Or"} -> \A i \in 1..Len(x.gs) : Consuming(x.gs[i])
      [] x.op = "Mult" ->
            /\ Consuming(x.g)
            /\ \A q \in 0..Len(sr.input) :
                  LET r == RunAt(x.g, q)
                  IN ~IsErr(r.err) => r.sr.pos > q
      [] OTHER -> Consuming(x.g)

\* C18: Mult(n, 0, g) has no safeguard against zero-width repetition: where g
\* succeeds without consuming input the repetition goes on applying g and does
\* not return (only the MaxInt sentinel bounds the loop); a grammar without
\* Resolve in which every successful application of a Mult body consumes a
\* character returns on every input.
NoZeroWidthSafeguard ==
    /\ (Invoked /\ g.op = "Mult" /\ g.m = MaxInt) =>
          /\ (~IsErr(Run(g.g).err) /\ Run(g.g).sr.pos = 0) =>
                phase = "hung" /\ sr.pos = 0
          /\ \A p \in 0..Len(sr.input) :
                LET b == RunAt(g.g, p)
                IN (~IsErr(b.err) /\ b.sr.pos = p) => RunAt(g, p).err = NoReturn
    /\ (Invoked /\ ~HasResolve(g) /\ Consuming(g)) => phase = "done"

\* An unbounded repetition whose body read the input and then matched the
\* empty text goes on without returning.
NoZeroWidthSafeguardWitness ==
    /\ phase = "hung" /\ g.op = "Mult" /\ g.m = MaxInt
    /\ sr.pos > 0
    /\ ~IsErr(RunAt(g.g, sr.pos).err) /\ RunAt(g.g, sr.pos).sr.pos = sr.pos

RECURSIVE CountTagged(_, _)
RECURSIVE CountTaggedIn(_, _, _)
\* The number of Tagged nodes labelled tag in m, reached through sequences and
\* Tagged nodes.
CountTagged(m, tag) ==
    CASE m.k = "slice" -> CountTaggedIn(m.ms, 1, tag)
      [] m.k = "TaggedMatch" ->
            (IF m.Tag = tag THEN 1 ELSE 0) + CountTagged(m.Match, tag)
      [] OTHER -> 0

CountTaggedIn(ms, i, tag) ==
    IF i > Len(ms) THEN 0
    ELSE CountTagged(ms[i], tag) + CountTaggedIn(ms, i + 1, tag)

RECURSIVE FirstTagged(_, _)
RECURSIVE FirstTaggedIn(_, _, _)
\* The first Tagged node labelled tag in m in depth-first order (a node before
\* what it wraps, the children of a sequence from left to right): whether
\* there is one, and its match.
FirstTagged(m, tag) ==
    CASE m.k = "slice" -> FirstTaggedIn(m.ms, 1, tag)
      [] m.k = "TaggedMatch" ->
            IF m.Tag = tag THEN [found |-> TRUE, m |-> m.Match]
            ELSE FirstTagged(m.Match, tag)
      [] OTHER -> [found |-> FALSE, m |-> Nil]

FirstTaggedIn(ms, i, tag) ==
    IF i > Len(ms) THEN [found |-> FALSE, m |-> Nil]
    ELSE LET f == FirstTagged(ms[i], tag)
         IN IF f.found THEN f ELSE FirstTaggedIn(ms, i + 1, tag)

\* the elements of a []interface{} result (none for nil)
Items(v) == IF NotNil(v) THEN v.ms ELSE <<>>

\* C17: GetTags(m, label) returns one entry for every Tagged node labelled
\* label that is reachable in m through sequences and Tagged nodes, nested
\* ones included, in the depth-first order of GetTag: when the list is not
\* empty its first element is what GetTag(m, label) returns.
AllTagsInOrder ==
    (phase = "queried" /\ out.op = "GetTags") =>
        /\ Len(Items(out.v)) = CountTagged(match, out.tag)
        /\ Items(out.v) # <<>> => Items(out.v)[1] = GetTag(match, out.tag)

\* C20: GetTag returns nil for "not found" only when m holds no Tagged node
\* with the label, and otherwise the match of the first such node in
\* depth-first order, also when that node wraps a nil match.
FirstTagFound ==
    (phase = "queried" /\ out.op = "GetTag") =>
        LET f == FirstTagged(match, out.tag)
        IN /\ out.v = Nil => ~f.found
           /\ f.found => out.v = f.m

\* C11: a Set built from a character class text whose bracket expression does
\* not compile never panics when invoked: every invocation ends in a
\* recoverable failure with the cursor restored, or in a returned error.
MalformedSetDegrades ==
    (phase # "build" /\ g.op = "Set" /\ ~g.regset.ok) =>
        /\ phase = "done"
        /\ IsErr(res.err)
        /\ ~IsFE(res.err) => sr.pos = 0

\* C19: whenever Mult(n, m, g) succeeds its result holds at least n matches,
\* and at most m when m > 0, for all integers n and m: also for 0 < m < n and
\* for a negative m.
MinimumEnforced ==
    (Done /\ g.op = "Mult" /\ ~IsErr(res.err)) =>
        /\ Len(res.m.ms) >= g.n
        /\ g.m > 0 => Len(res.m.ms) <= g.m

\* invocation p has returned
Returns(p) == procs[p].stack = <<>>

\* C12: a grammar holds no mutable state: two invocations of the same grammar
\* on two different cursors, interleaved in any order, each return the match
\* and error and leave their cursor at the position (after the calls) of the
\* invocation run alone, and a step of one never changes the other's cursor.
ReuseIndependence ==
    /\ [](\A p \in Procs :
            Returns(p) =>
                LET alone == Apply(g, NewReader(curs[p].input), cell)
                IN /\ procs[p].ret.m = alone.m
                   /\ procs[p].ret.err = alone.err
                   /\ curs[p] = alone.sr)
    /\ [][\A p \in Procs : procs'[p] = procs[p] => curs'[p] = curs[p]]_vars

\* Both invocations are under way on different inputs, each inside a nested
\* call with a checkpoint taken, and their cursors stand at different positions.
ReuseIndependenceWitness ==
    /\ phase = "par"
    /\ curs[1].input # curs[2].input
    /\ curs[1].pos # curs[2].pos
    /\ \A p \in Procs : Len(procs[p].stack) >= 2 /\ curs[p].log # <<>>

====
